---- MODULE Spec2Model ----
(***************************************************************************)
(* Model of real_estate_ledger.py: a Streamlit script that keeps, for each *)
(* browser session, a username, an ordered mapping of properties to        *)
(* expense lists and a current-property pointer, and persists the mapping  *)
(* per username in a Supabase table (when configured) or in a local JSON   *)
(* file.  One action of the model is one run of the script, caused by one  *)
(* widget interaction of one session; where sessions run as threads, a     *)
(* file write is two steps, open() and json.dump()/close().                *)
(***************************************************************************)
EXTENDS Integers, Sequences, FiniteSets, TLC

\* ------------------------------------------------------------- bounds
\* Most expense records one ledger holds (over all its properties).
MaxExpenses == 2
\* Largest amount typed into the amount field, in units of the field's
\* smallest step; 0 is the smallest value the field accepts.
MaxAmount == 2
\* Most script runs of one behaviour in which an I/O call fails (the remote
\* request raises, the local file cannot be read or written).
MaxFaults == 1
\* The same caps where a ledger has three properties or two sessions run.
SmallMaxExpenses == 1
SmallMaxAmount == 1

\* ------------------------------------------------------------- values
None == "None"
\* "默认房产", the label of the property created when a ledger has none.
DefaultProperty == "dflt"
\* Names typed into the new-property field.
TwoNames == {"A", DefaultProperty}
ThreeNames == {"A", "B", DefaultProperty}
Users == {"alice"}
Sessions == {1, 2}
\* What one specification explores: property names typed, amounts
\* 0..maxAmount typed, no record beyond maxExp per ledger, at most
\* maxFaults script runs with a failing I/O call, and whether the runs of
\* other sessions can fall between the open() and the close() of a file
\* write (threads) or not.
Scope(names, maxExp, maxAmount, maxFaults, threads) ==
    [names |-> names, maxExp |-> maxExp, maxAmount |-> maxAmount,
     maxFaults |-> maxFaults, threads |-> threads]

\* An insertion-ordered dict {name: [expense, ...]} is a sequence of
\* [name, expenses] entries with pairwise different names.
EmptyDict == << >>
Entry(n, xs) == [name |-> n, expenses |-> xs]
Keys(d) == [i \in 1..Len(d) |-> d[i].name]
KeySet(d) == {d[i].name : i \in 1..Len(d)}
IndexOf(d, n) == CHOOSE i \in 1..Len(d) : d[i].name = n
\* d.get(n, [])
Get(d, n) == IF n \in KeySet(d) THEN d[IndexOf(d, n)].expenses ELSE << >>
\* d[n] = xs : in place for a present key, at the end for a new one
SetItem(d, n, xs) ==
    IF n \in KeySet(d)
    THEN [d EXCEPT ![IndexOf(d, n)] = Entry(n, xs)]
    ELSE Append(d, Entry(n, xs))
\* del d[n]
DelItem(d, n) == SelectSeq(d, LAMBDA e : e.name # n)
\* list.pop(i), with i counted from 1
Pop(xs, i) == [j \in 1..(Len(xs) - 1) |-> IF j < i THEN xs[j] ELSE xs[j + 1]]

\* {"默认房产": []}
DefaultLedger == << Entry(DefaultProperty, << >>) >>

\* expense_record: the amount stands for the whole record (date, type and
\* description are carried along unchanged).
ExpenseRecord(amount) == [amount |-> amount]

\* ------------------------------------------------------------- stores
\* Length of the text json.dump writes for a properties mapping, in bytes
\* beyond those every document has: per property its name and punctuation
\* ("默认房产" is 12 bytes long, "A" and "B" are 1), per record its four
\* keys and values, which outweigh any difference between names.
RECURSIVE TextSize(_)
TextSize(props) ==
    IF props = << >> THEN 0
    ELSE (IF props[1].name = "dflt" THEN 22 ELSE 11)
         + 100 * Len(props[1].expenses) + TextSize(Tail(props))

\* Content of user_data/<username>.json, and of the row of table `ledgers`.
\* size: the length of the file.
File(kind, u, hasProps, props) ==
    [kind |-> kind, username |-> u, hasProps |-> hasProps, properties |-> props,
     size |-> IF kind = "doc" THEN 40 + TextSize(props) ELSE 0]
\* no file / no row
Absent == File("absent", None, FALSE, EmptyDict)
\* a file json.load cannot read as an object: truncated text, or a JSON
\* value that is not an object
Malformed == File("malformed", None, FALSE, EmptyDict)
\* a file of n bytes that starts with one document and ends with the rest
\* of a longer one
Torn(n) == [Malformed EXCEPT !.size = n]
\* a row whose data column is JSON null
NullData == File("null", None, FALSE, EmptyDict)
\* a row whose data column is a JSON value that is not an object
NonDictData == File("nondict", None, FALSE, EmptyDict)

\* data = {"username": username, "properties": properties}
Document(u, props) == [username |-> u, properties |-> props]

\* A jsonb column keeps an object's keys sorted, shorter keys first; arrays
\* keep their order.  "A" and "B" are shorter than the default label.
JsonbRank(n) == IF n = "A" THEN 1 ELSE IF n = "B" THEN 2 ELSE 3
RECURSIVE JsonbInsert(_, _)
JsonbInsert(d, e) ==
    IF d = << >> THEN << e >>
    ELSE IF JsonbRank(e.name) < JsonbRank(d[1].name) THEN << e >> \o d
    ELSE << d[1] >> \o JsonbInsert(Tail(d), e)
RECURSIVE JsonbSort(_)
JsonbSort(d) ==
    IF d = << >> THEN << >> ELSE JsonbInsert(JsonbSort(Tail(d)), d[1])
Jsonb(data) == File("doc", data.username, TRUE, JsonbSort(data.properties))

\* Variant: json.dump(data, f, sort_keys=True), which puts these names in
\* the order jsonb puts them in.
json_dump_sort_keys(data) ==
    File("doc", data.username, TRUE, JsonbSort(data.properties))

\* json.dump(data, f): the text of an object whose keys stand in the
\* dict's order, which json.load reads back in that order.
json_dump(data) == File("doc", data.username, TRUE, data.properties)

VARIABLES
    configured,        \* _has_remote_config(): secrets and client present
    remote,            \* table `ledgers`: username -> row
    local,             \* directory user_data: username -> file
    username,          \* st.session_state.username, per session
    properties,        \* st.session_state.properties, per session
    current_property,  \* st.session_state.current_property, per session
    page,              \* what the session's last script run left on screen
    lastOp,            \* what the last script run did and reported
    faults,            \* script runs so far in which an I/O call failed
    writing            \* per session: the data of a file write between
                       \* open() and close()

vars == << configured, remote, local, username, properties,
           current_property, page, lastOp, faults, writing >>

\* ------------------------------------------------------------- load
\* What a call returns to the script: None, or the data of the row.
NoneValue == File("none", None, FALSE, EmptyDict)

\* Variant: a lookup that finds no row returns an empty object, not None.
load_user_data_remote_empty_on_miss(u, rOut) ==
    IF rOut = "error" THEN NoneValue
    ELSE IF remote[u].kind = "null" THEN NoneValue
    ELSE IF remote[u].kind = "absent" THEN File("doc", None, FALSE, EmptyDict)
    ELSE remote[u]

\* load_user_data_remote(username): the data of the user's row; None when
\* there is no row, when the data is null, and when the request raises.
load_user_data_remote(u, rOut) ==
    IF rOut = "error" THEN NoneValue
    ELSE IF remote[u].kind \in {"absent", "null"} THEN NoneValue
    ELSE remote[u]

\* How the remote request of a load ended.
RemoteLoadResult(u, rOut) ==
    IF rOut = "error" THEN "error"
    ELSE IF remote[u].kind = "absent" THEN "notfound"
    ELSE IF remote[u].kind = "null" THEN "null"
    ELSE "found"

\* data.get("properties", {})
GetProperties(data) == IF data.hasProps THEN data.properties ELSE EmptyDict

\* Variant: an empty mapping is kept.
KeepEmpty(props) == props

\* if not properties: properties = {"默认房产": []}
Heal(props) == IF props = EmptyDict THEN DefaultLedger ELSE props

\* remote.get("properties", {}) if isinstance(remote, dict) else default,
\* then healed.
FromRemote(r) ==
    Heal(IF r.kind = "doc" THEN GetProperties(r) ELSE DefaultLedger)

\* Variant: the local branch never opens the file.
load_local_never_reads(u, lOut) ==
    [raised |-> FALSE, properties |-> DefaultLedger,
     local |-> IF local[u].kind = "absent" THEN "absent" ELSE "read"]

\* The local branch of load_user_data().  lOut is how reading the file
\* ends ("ok", "readfail"); raised: the branch ended with an exception,
\* which nothing catches.
load_local(u, lOut) ==
    IF local[u].kind = "absent"
    THEN [raised |-> FALSE, properties |-> DefaultLedger, local |-> "absent"]
    ELSE IF lOut = "readfail"
    THEN [raised |-> TRUE, properties |-> EmptyDict, local |-> "readfail"]
    ELSE IF local[u].kind = "malformed"
    THEN [raised |-> TRUE, properties |-> EmptyDict, local |-> "malformed"]
    ELSE [raised |-> FALSE, properties |-> Heal(GetProperties(local[u])),
          local |-> "read"]

\* load_user_data() for a non-empty username.  rOut is how the remote
\* request ends ("ok", "error").
load_user_data(u, rOut, lOut) ==
    LET r == IF configured THEN load_user_data_remote(u, rOut) ELSE NoneValue
        rres == IF configured THEN RemoteLoadResult(u, rOut) ELSE "skip"
        calls == IF configured THEN 1 ELSE 0
        l == load_local(u, lOut)
    IN  IF r.kind # "none"
        THEN [raised |-> FALSE, properties |-> FromRemote(r),
              remote |-> rres, remoteCalls |-> calls, local |-> "skip"]
        ELSE [raised |-> l.raised, properties |-> l.properties,
              remote |-> rres, remoteCalls |-> calls, local |-> l.local]

\* ------------------------------------------------------------- save
\* save_user_data_remote(username, data): True when the upsert went through.
save_user_data_remote(u, data, rOut) ==
    [ok |-> rOut = "ok",
     remote |-> IF rOut = "ok" THEN [remote EXCEPT ![u] = Jsonb(data)]
                ELSE remote]

\* with open(user_file, "w") as f: json.dump(data, f) inside try/except.
\* lOut: "ok"; "openfail", the file cannot be opened and stays as it was;
\* "partial", the write stops after open() has truncated the file.
WriteLocal(u, data, lOut) ==
    IF lOut = "ok" THEN [local EXCEPT ![u] = json_dump(data)]
    ELSE IF lOut = "partial" THEN [local EXCEPT ![u] = Malformed]
    ELSE local

\* open(user_file, "w"): the file exists and is empty.
OpenLocal(u) == [local EXCEPT ![u] = Malformed]

\* json.dump(data, f) and the close() at the end of the with block, by a
\* writer that opened the file earlier: the text goes to the start of the
\* file and what another writer has put behind its end in between stays.
CloseLocal(u, data) ==
    IF local[u].size <= json_dump(data).size
    THEN [local EXCEPT ![u] = json_dump(data)]
    ELSE [local EXCEPT ![u] = Torn(local[u].size)]

\* No file write under way.
NotWriting == [open |-> FALSE, username |-> None, properties |-> EmptyDict]
Writing(data) ==
    [open |-> TRUE, username |-> data.username, properties |-> data.properties]

\* Variant: the file is written after a successful upsert too.
save_user_data_write_through(u, props, rOut, lOut) ==
    LET data == Document(u, props)
        r == save_user_data_remote(u, data, rOut)
    IN  [remoteStore |-> IF configured THEN r.remote ELSE remote,
         localStore |-> WriteLocal(u, data, lOut),
         remote |-> IF ~configured THEN "skip"
                    ELSE IF r.ok THEN "ok" ELSE "error",
         remoteCalls |-> IF configured THEN 1 ELSE 0,
         local |-> IF lOut = "ok" THEN "written" ELSE "writefail"]

\* Variant: with the remote store configured the file is never written.
save_user_data_remote_only(u, props, rOut, lOut) ==
    LET data == Document(u, props)
        r == save_user_data_remote(u, data, rOut)
    IN  IF configured
        THEN [remoteStore |-> r.remote, localStore |-> local,
              remote |-> IF r.ok THEN "ok" ELSE "error",
              remoteCalls |-> 1, local |-> "skip"]
        ELSE [remoteStore |-> remote,
              localStore |-> WriteLocal(u, data, lOut),
              remote |-> "skip", remoteCalls |-> 0,
              local |-> IF lOut = "ok" THEN "written" ELSE "writefail"]

\* save_user_data() with session username u and session properties props.
save_user_data(u, props, rOut, lOut) ==
    LET data == Document(u, props)
        r == save_user_data_remote(u, data, rOut)
    IN  IF u = None
        THEN [remoteStore |-> remote, localStore |-> local,
              remote |-> "skip", remoteCalls |-> 0, local |-> "skip"]
        ELSE IF configured /\ r.ok
        THEN [remoteStore |-> r.remote, localStore |-> local,
              remote |-> "ok", remoteCalls |-> 1, local |-> "skip"]
        ELSE [remoteStore |-> remote,
              localStore |-> WriteLocal(u, data, lOut),
              remote |-> IF configured THEN "error" ELSE "skip",
              remoteCalls |-> IF configured THEN 1 ELSE 0,
              local |-> IF lOut = "ok" THEN "written" ELSE "writefail"]

\* Rows and files that exist before the first run of the script.
SampleLedgers == { << Entry(DefaultProperty, << ExpenseRecord(1) >>) >> }
InitialDocuments ==
    { File("doc", "alice", FALSE, EmptyDict),
      File("doc", "alice", TRUE, EmptyDict) }
    \cup { File("doc", "alice", TRUE, p) : p \in SampleLedgers }
InitialFiles == {Absent, Malformed} \cup InitialDocuments
InitialRows == {Absent, NullData, NonDictData} \cup InitialDocuments

\* How the I/O calls of one load or save can end: << remote request, local
\* file access >>.
LoadOutcomes == {"ok", "error"} \X {"ok", "readfail"}
\* A save writes the file only after the remote request failed or was not
\* made.
SaveOutcomes ==
    IF configured
    THEN {<< "ok", "ok" >>, << "error", "ok" >>, << "error", "openfail" >>,
          << "error", "partial" >>}
    ELSE {<< "ok", "ok" >>, << "ok", "openfail" >>, << "ok", "partial" >>}

\* ------------------------------------------------------------- script
\* What one run of the script did: the handler that ran (op) in which
\* session, whether it was refused with a message (rejected), whether it
\* ended in an uncaught exception (raised), whether it called
\* load_user_data / save_user_data, what the load set as properties, how
\* often the remote store was called, how that call and the local file
\* access ended, and the amounts submitted in the expense form.
Report(op, s, rejected, raised, loadCalled, loaded, saveCalled, io, amounts) ==
    [op |-> op, sess |-> s, rejected |-> rejected, raised |-> raised,
     loadCalled |-> loadCalled, loaded |-> loaded, saveCalled |-> saveCalled,
     remote |-> io.remote, remoteCalls |-> io.remoteCalls, local |-> io.local,
     amounts |-> amounts]
NoIO == [remote |-> "skip", remoteCalls |-> 0, local |-> "skip"]
Quiet(op, s, rejected, amounts) ==
    Report(op, s, rejected, FALSE, FALSE, EmptyDict, FALSE, NoIO, amounts)
Saved(op, s, sv, amounts) ==
    Report(op, s, FALSE, FALSE, FALSE, EmptyDict, TRUE, sv, amounts)

\* An I/O call of the run failed.
Faulty(io) == io.remote = "error" \/ io.local \in {"readfail", "writefail"}
\* The run counts against the scope's maxFaults when one did.
CountFault(io, sc) ==
    /\ Faulty(io) => faults < sc.maxFaults
    /\ faults' = IF Faulty(io) THEN faults + 1 ELSE faults

\* index=property_names.index(current) if current in property_names else 0
SelectIndex(names, cur) ==
    IF \E i \in 1..Len(names) : names[i] = cur
    THEN CHOOSE i \in 1..Len(names) : names[i] = cur
    ELSE 1

\* The head of the main branch.  With properties, the selectbox returns
\* the option the user picked in this run (choice), else the option at
\* index; without properties the default property is created.
Selectbox(props, cur, choice) ==
    IF props # EmptyDict
    THEN [properties |-> props,
          current |-> IF choice \in KeySet(props) THEN choice
                      ELSE Keys(props)[SelectIndex(Keys(props), cur)]]
    ELSE [properties |-> SetItem(props, DefaultProperty, << >>),
          current |-> DefaultProperty]

\* Variant: the last key.
LastKey(props) == Keys(props)[Len(props)]

\* list(properties.keys())[0]
FirstKey(props) == Keys(props)[1]

\* Variant: zero is accepted.
AmountNotNegative(amount) == amount >= 0

\* if amount > 0
AmountAccepted(amount) == amount > 0

RECURSIVE CountExpenses(_)
CountExpenses(props) ==
    IF props = << >> THEN 0
    ELSE Len(props[1].expenses) + CountExpenses(Tail(props))

\* The session's state after the run.
Session(s, u, props, cur, pg) ==
    /\ username' = [username EXCEPT ![s] = u]
    /\ properties' = [properties EXCEPT ![s] = props]
    /\ current_property' = [current_property EXCEPT ![s] = cur]
    /\ page' = [page EXCEPT ![s] = pg]

\* The stores and the report after a run that called save_user_data.  With
\* threads, a run that writes the file stops after open(): the rest of the
\* write is the session's next step.
Stored(op, s, sv, sc, amounts) ==
    /\ remote' = sv.remoteStore
    /\ CountFault(sv, sc)
    /\ IF sc.threads /\ sv.local = "written"
       THEN /\ local' = OpenLocal(username[s])
            /\ writing' = [writing EXCEPT ![s] =
                                Writing(Document(username[s], properties'[s]))]
            /\ lastOp' = [Saved(op, s, sv, amounts) EXCEPT !.local = "opened"]
       ELSE /\ local' = sv.localStore
            /\ lastOp' = Saved(op, s, sv, amounts)
            /\ UNCHANGED writing

\* The report after a run that called neither load nor save.
Idle(op, s, rejected, amounts) ==
    /\ lastOp' = Quiet(op, s, rejected, amounts)
    /\ UNCHANGED << remote, local, faults, writing >>

\* Session s shows page pg and runs no script.
Shows(s, pg) == page[s] = pg /\ ~writing[s].open

Init ==
    /\ configured \in BOOLEAN
    /\ remote \in [Users -> IF configured THEN InitialRows ELSE {Absent}]
    /\ local \in [Users -> InitialFiles]
    /\ username = [s \in Sessions |-> None]
    /\ properties = [s \in Sessions |-> EmptyDict]
    /\ current_property = [s \in Sessions |-> DefaultProperty]
    /\ page = [s \in Sessions |-> "login"]
    /\ lastOp = Quiet("start", 0, FALSE, {})
    /\ faults = 0
    /\ writing = [s \in Sessions |-> NotWriting]

\* Login form submitted with u in the username field ("" is an empty field).
Login(s, sc) ==
    /\ Shows(s, "login")
    /\ \E u \in Users \cup {""}, out \in LoadOutcomes :
        IF u = ""
        THEN /\ Session(s, username[s], properties[s], current_property[s],
                        page[s])
             /\ Idle("login", s, TRUE, {})
        ELSE LET r == load_user_data(u, out[1], out[2])
                 cur == IF r.properties # EmptyDict
                        THEN FirstKey(r.properties)
                        ELSE current_property[s]
                 t == Selectbox(r.properties, cur, None)
             IN  /\ IF r.raised
                    THEN Session(s, u, properties[s], current_property[s],
                                 "fault")
                    ELSE Session(s, u, t.properties, t.current, "main")
                 /\ lastOp' = Report("login", s, FALSE, r.raised, TRUE,
                                     r.properties, FALSE, r, {})
                 /\ CountFault(r, sc)
                 /\ UNCHANGED << remote, local, writing >>
    /\ UNCHANGED configured

\* "退出登录" pressed.
Logout(s) ==
    /\ Shows(s, "main")
    /\ Session(s, None, EmptyDict, DefaultProperty, "login")
    /\ Idle("logout", s, FALSE, {})
    /\ UNCHANGED configured

\* A run of the script in a logged-in session that triggers no handler:
\* the first run after a load that raised, or a widget outside the forms.
Rerun(s) ==
    /\ username[s] # None
    /\ ~writing[s].open
    /\ LET t == Selectbox(properties[s], current_property[s], None)
       IN  Session(s, username[s], t.properties, t.current, "main")
    /\ Idle("rerun", s, FALSE, {})
    /\ UNCHANGED configured

\* Another option picked in the "选择房产" selectbox.
SelectProperty(s) ==
    /\ Shows(s, "main")
    /\ \E n \in KeySet(properties[s]) :
        LET t == Selectbox(properties[s], current_property[s], n)
        IN  Session(s, username[s], t.properties, t.current, "main")
    /\ Idle("select", s, FALSE, {})
    /\ UNCHANGED configured

\* "添加房产" submitted with n in the name field ("" is an empty field).
AddProperty(s, sc) ==
    /\ Shows(s, "main")
    /\ \E n \in sc.names \cup {""}, out \in SaveOutcomes :
        LET t == Selectbox(properties[s], current_property[s], None)
            added == SetItem(t.properties, n, << >>)
            sv == save_user_data(username[s], added, out[1], out[2])
            after == Selectbox(added, t.current, None)
        IN  IF n # "" /\ n \notin KeySet(t.properties)
            THEN /\ Session(s, username[s], after.properties, after.current,
                            "main")
                 /\ Stored("add_property", s, sv, sc, {})
            ELSE /\ Session(s, username[s], t.properties, t.current, "main")
                 /\ Idle("add_property", s, TRUE, {})
    /\ UNCHANGED configured

\* "删除房产 '<current>'" pressed; the button exists with two properties or
\* more.
DeleteProperty(s, sc) ==
    /\ Shows(s, "main")
    /\ LET t == Selectbox(properties[s], current_property[s], None)
       IN  /\ Len(t.properties) > 1
           /\ \E out \in SaveOutcomes :
                LET rest == DelItem(t.properties, t.current)
                    cur == FirstKey(rest)
                    sv == save_user_data(username[s], rest, out[1], out[2])
                    after == Selectbox(rest, cur, None)
                IN  /\ Session(s, username[s], after.properties,
                               after.current, "main")
                    /\ Stored("delete_property", s, sv, sc, {})
    /\ UNCHANGED configured

\* "添加记录" submitted with amount in the amount field.
AddExpense(s, sc) ==
    /\ Shows(s, "main")
    /\ \E amount \in 0..sc.maxAmount, out \in SaveOutcomes :
        LET t == Selectbox(properties[s], current_property[s], None)
            appended == SetItem(t.properties, t.current,
                                Append(Get(t.properties, t.current),
                                       ExpenseRecord(amount)))
            sv == save_user_data(username[s], appended, out[1], out[2])
        IN  IF AmountAccepted(amount)
            THEN /\ CountExpenses(t.properties) < sc.maxExp
                 /\ Session(s, username[s], appended, t.current, "main")
                 /\ Stored("add_expense", s, sv, sc, {amount})
            ELSE /\ Session(s, username[s], t.properties, t.current, "main")
                 /\ Idle("add_expense", s, TRUE, {amount})
    /\ UNCHANGED configured

\* The delete button of row i of the current property's table pressed.
DeleteExpense(s, sc) ==
    /\ Shows(s, "main")
    /\ LET t == Selectbox(properties[s], current_property[s], None)
           current_expenses == Get(t.properties, t.current)
       IN  \E i \in 1..Len(current_expenses), out \in SaveOutcomes :
                LET popped == SetItem(t.properties, t.current,
                                      Pop(current_expenses, i))
                    sv == save_user_data(username[s], popped, out[1], out[2])
                    after == Selectbox(popped, t.current, None)
                IN  /\ Session(s, username[s], after.properties,
                               after.current, "main")
                    /\ Stored("delete_expense", s, sv, sc, {})
    /\ UNCHANGED configured

\* "清空当前房产的所有记录" pressed; the button exists while the current
\* property has records.
ClearProperty(s, sc) ==
    /\ Shows(s, "main")
    /\ LET t == Selectbox(properties[s], current_property[s], None)
           current_expenses == Get(t.properties, t.current)
       IN  /\ current_expenses # << >>
           /\ \E out \in SaveOutcomes :
                LET cleared == SetItem(t.properties, t.current, << >>)
                    sv == save_user_data(username[s], cleared, out[1], out[2])
                    after == Selectbox(cleared, t.current, None)
                IN  /\ Session(s, username[s], after.properties,
                               after.current, "main")
                    /\ Stored("clear", s, sv, sc, {})
    /\ UNCHANGED configured

\* The rest of a file write that session s began in its last run: json.dump
\* and close(), and st.rerun() where the handler ends with it.
CloseFile(s) ==
    /\ writing[s].open
    /\ local' = CloseLocal(writing[s].username,
                           Document(writing[s].username, writing[s].properties))
    /\ writing' = [writing EXCEPT ![s] = NotWriting]
    /\ lastOp' = [lastOp EXCEPT !.op = "close", !.sess = s, !.rejected = FALSE,
                                !.raised = FALSE, !.loadCalled = FALSE,
                                !.loaded = EmptyDict, !.saveCalled = TRUE,
                                !.remote = IF configured THEN "error" ELSE "skip",
                                !.remoteCalls = 0, !.local = "written",
                                !.amounts = {}]
    /\ UNCHANGED << configured, remote, username, properties,
                    current_property, page, faults >>

\* One run of the script in session s.
Run(s, sc) ==
    \/ Login(s, sc)
    \/ Logout(s)
    \/ Rerun(s)
    \/ SelectProperty(s)
    \/ AddProperty(s, sc)
    \/ DeleteProperty(s, sc)
    \/ AddExpense(s, sc)
    \/ DeleteExpense(s, sc)
    \/ ClearProperty(s, sc)

\* One browser session, ledgers of up to two properties.
Next == Run(1, Scope(TwoNames, MaxExpenses, MaxAmount, MaxFaults, FALSE))
Spec == Init /\ [][Next]_vars

\* One browser session, ledgers of up to three properties.
NextNames == Run(1, Scope(ThreeNames, SmallMaxExpenses, SmallMaxAmount, MaxFaults, FALSE))
SpecNames == Init /\ [][NextNames]_vars

\* Two browser sessions, each run by a thread of its own, every I/O call
\* succeeding.
NextShared ==
    \E s \in Sessions :
        \/ Run(s, Scope(TwoNames, SmallMaxExpenses, SmallMaxAmount, 0, TRUE))
        \/ CloseFile(s)
\* They start with no row and no file for any username.
InitShared ==
    /\ Init
    /\ \A u \in Users : remote[u] = Absent /\ local[u] = Absent
SpecShared == InitShared /\ [][NextShared]_vars

\* ------------------------------------------------------------- claims
\* The session and the username of the last run's load or save.
OpSession == lastOp.sess
OpUser == username[lastOp.sess]
\* The last run called load_user_data and the call returned.
Loaded == lastOp.loadCalled /\ ~lastOp.raised
\* What the local branch returns for the file as it stands.
LocalLedger(u) ==
    IF local[u].kind = "absent" THEN DefaultLedger
    ELSE Heal(GetProperties(local[u]))

\* C1 as stated: after a remote lookup that ends without error and finds no
\* row, the load has not consulted the local file and has returned the fresh
\* default ledger.
C1_NotFoundIsAuthoritative ==
    (Loaded /\ lastOp.remote = "notfound")
        => (lastOp.local = "skip" /\ lastOp.loaded = DefaultLedger)

\* C1 amended: after a remote lookup that ends without error and finds no
\* row, the load has consulted the local file, as after a remote error: a
\* load that returns has returned the file's properties (one default
\* property for an absent or empty mapping) when the file exists and the
\* fresh default ledger when it does not.
C1_NotFoundFallsThroughToLocal ==
    (lastOp.loadCalled /\ lastOp.remote = "notfound")
        => /\ lastOp.local # "skip"
           /\ ~lastOp.raised => lastOp.loaded = LocalLedger(OpUser)
           /\ lastOp.local = "absent" <=> local[OpUser] = Absent

\* C1 witness: a lookup found no row and the load returned the records of
\* an existing local file.
C1_Witness ==
    /\ Loaded
    /\ lastOp.remote = "notfound"
    /\ local[OpUser].kind = "doc"
    /\ lastOp.loaded = local[OpUser].properties
    /\ lastOp.loaded # DefaultLedger

\* C2: after a load whose remote request raised, the remote store has been
\* called once, and a load that returned has returned the properties of the
\* user's local file when it exists (one default property for an absent or
\* empty mapping) and the fresh default ledger when it does not.
C2_RemoteErrorFallsBackToLocal ==
    (lastOp.loadCalled /\ lastOp.remote = "error")
        => /\ lastOp.remoteCalls = 1
           /\ lastOp.local # "skip"
           /\ local[OpUser] = Absent
                => (~lastOp.raised /\ lastOp.loaded = DefaultLedger)
           /\ (local[OpUser].kind = "doc" /\ ~lastOp.raised)
                => /\ lastOp.local = "read"
                   /\ lastOp.loaded = Heal(GetProperties(local[OpUser]))
                   /\ local[OpUser].properties # EmptyDict
                        => lastOp.loaded = local[OpUser].properties

\* C2 witness: the remote request raised and the load returned the records
\* of an existing local file.
C2_Witness ==
    /\ Loaded
    /\ lastOp.remote = "error"
    /\ local[OpUser].kind = "doc"
    /\ lastOp.loaded = local[OpUser].properties
    /\ lastOp.loaded # DefaultLedger

\* The document the last run's save was given.
OpDocument == Document(OpUser, properties[OpSession])

\* C3: a run whose save reached the remote store and whose upsert went
\* through leaves every local file as it was, absent files absent, does not
\* open the file, and leaves the document in the user's row.
C3_RemoteSaveLeavesLocalAlone ==
    [][(lastOp'.saveCalled /\ lastOp'.remote = "ok")
        => /\ local' = local
           /\ lastOp'.local = "skip"
           /\ remote'[username'[lastOp'.sess]] =
                Jsonb(Document(username'[lastOp'.sess],
                               properties'[lastOp'.sess]))]_vars

\* C3 witness: an upsert went through for a ledger with a record while the
\* user has no local file.
C3_Witness ==
    /\ lastOp.saveCalled
    /\ lastOp.remote = "ok"
    /\ local[OpUser] = Absent
    /\ CountExpenses(properties[OpSession]) > 0

\* C4: a save whose upsert raised, or that made no remote request because
\* the remote store is not configured, has tried to write the local file in
\* the same run; and after a save whose local write did not fail the row or
\* the file of the user holds the document that was saved.
C4_SaveReachesABackend ==
    lastOp.saveCalled
        => /\ OpUser # None
           /\ lastOp.remote \in {"error", "skip"}
                => lastOp.local \in {"written", "writefail"}
           /\ lastOp.remote = "skip" <=> ~configured
           /\ lastOp.local = "written" => local[OpUser] = json_dump(OpDocument)
           /\ lastOp.local # "writefail"
                => \/ remote[OpUser] = Jsonb(OpDocument)
                   \/ local[OpUser] = json_dump(OpDocument)

\* C4 witness: the upsert raised and the file holds the saved document,
\* which the row does not.
C4_Witness ==
    /\ lastOp.saveCalled
    /\ lastOp.remote = "error"
    /\ lastOp.local = "written"
    /\ local[OpUser] = json_dump(OpDocument)
    /\ remote[OpUser] # Jsonb(OpDocument)

\* The runs that change a ledger.
Mutations ==
    {"add_property", "delete_property", "add_expense", "delete_expense",
     "clear"}

\* C5: a load that returns has returned at least one property, also for a
\* stored document whose properties mapping is absent or empty; a session
\* showing the main page has at least one property after every run; a run
\* that deletes a property starts from two properties or more and saves;
\* and no run takes the property of a one-property ledger away.
C5_AtLeastOneProperty ==
    [][/\ (lastOp'.loadCalled /\ ~lastOp'.raised) => Len(lastOp'.loaded) >= 1
       /\ \A s \in Sessions : page'[s] = "main" => Len(properties'[s]) >= 1
       /\ lastOp'.op = "delete_property"
            => /\ Len(properties[lastOp'.sess]) > 1
               /\ Len(properties'[lastOp'.sess]) =
                    Len(properties[lastOp'.sess]) - 1
               /\ lastOp'.saveCalled
       /\ \A s \in Sessions :
            (page[s] = "main" /\ page'[s] = "main" /\ Len(properties[s]) = 1)
                => KeySet(properties[s]) \subseteq KeySet(properties'[s])]_vars

\* C5 witness: a load read a local document without properties and
\* returned the one default property.
C5_Witness ==
    /\ Loaded
    /\ lastOp.local = "read"
    /\ GetProperties(local[OpUser]) = EmptyDict
    /\ lastOp.loaded = DefaultLedger
    /\ properties[OpSession] = DefaultLedger

\* C6: with the remote store not configured and no I/O call failed so far,
\* a load for the username of a session showing the main page returns the
\* session's properties, names and records in the same order, unless the
\* file is still the unreadable one the session started from; and every
\* mutation that was not refused has written the session's document to the
\* file within its run.
C6_ReloadEqualsMemory ==
    (~configured /\ faults = 0)
        => /\ \A s \in Sessions :
                (page[s] = "main" /\ local[username[s]] # Malformed)
                    => /\ ~load_user_data(username[s], "ok", "ok").raised
                       /\ load_user_data(username[s], "ok", "ok").properties
                            = properties[s]
           /\ (lastOp.op \in Mutations /\ ~lastOp.rejected)
                => /\ lastOp.saveCalled
                   /\ lastOp.local = "written"
                   /\ GetProperties(local[OpUser]) = properties[OpSession]

\* C6 witness: after a mutation the file holds two properties, the default
\* one last, and two different records in one of them.
C6_Witness ==
    /\ ~configured
    /\ faults = 0
    /\ lastOp.op \in Mutations
    /\ lastOp.saveCalled
    /\ properties[OpSession] =
            << Entry("A", << ExpenseRecord(2), ExpenseRecord(1) >>),
               Entry(DefaultProperty, << >>) >>
    /\ load_user_data(OpUser, "ok", "ok").properties = properties[OpSession]

\* C7: a run of the expense form with an amount of zero or less is refused,
\* changes no property of any session and no store and calls no save; a run
\* with an amount above zero appends exactly one record with that amount at
\* the end of the current property's list, keeps the names and every other
\* property's list, and calls save, which reaches the remote store or the
\* file.
C7_AddExpense ==
    [][lastOp'.op = "add_expense"
        => \E a \in lastOp'.amounts :
            /\ lastOp'.amounts = {a}
            /\ IF a <= 0
               THEN /\ lastOp'.rejected
                    /\ ~lastOp'.saveCalled
                    /\ lastOp'.remoteCalls = 0 /\ lastOp'.local = "skip"
                    /\ UNCHANGED << properties, remote, local >>
               ELSE LET s == lastOp'.sess
                        cur == current_property[s]
                    IN  /\ ~lastOp'.rejected
                        /\ lastOp'.saveCalled
                        /\ lastOp'.remoteCalls = 1 \/ lastOp'.local # "skip"
                        /\ cur \in KeySet(properties[s])
                        /\ current_property'[s] = cur
                        /\ Keys(properties'[s]) = Keys(properties[s])
                        /\ Get(properties'[s], cur) =
                             Append(Get(properties[s], cur), ExpenseRecord(a))
                        /\ \A n \in KeySet(properties[s]) \ {cur} :
                             Get(properties'[s], n) = Get(properties[s], n)
                        /\ \A o \in Sessions \ {s} :
                             properties'[o] = properties[o]]_vars

\* C7 witness: a record was appended behind another one in a ledger of two
\* properties.
C7_Witness ==
    /\ lastOp.op = "add_expense"
    /\ ~lastOp.rejected
    /\ Len(properties[OpSession]) = 2
    /\ Len(Get(properties[OpSession], current_property[OpSession])) = 2

\* C9: after every run a session showing the main page points at a key of
\* its properties; after a login whose load returned it points at the first
\* key of the loaded ledger; a run that deletes a property deletes the one
\* pointed at and then points at the first remaining key; and a pointer
\* naming an absent key is reset by the selectbox to the first key.
C9_PointerNamesAKey ==
    [][/\ \A s \in Sessions :
            page'[s] = "main"
                => /\ current_property'[s] \in KeySet(properties'[s])
                   /\ \A c \in (ThreeNames \cup {None}) \ KeySet(properties'[s]) :
                        Selectbox(properties'[s], c, None).current =
                            properties'[s][1].name
       /\ (lastOp'.op = "login" /\ lastOp'.loadCalled /\ ~lastOp'.raised)
            => /\ properties'[lastOp'.sess] = lastOp'.loaded
               /\ current_property'[lastOp'.sess] = lastOp'.loaded[1].name
       /\ lastOp'.op = "delete_property"
            => /\ current_property[lastOp'.sess]
                    \in KeySet(properties[lastOp'.sess])
               /\ properties'[lastOp'.sess] =
                    DelItem(properties[lastOp'.sess],
                            current_property[lastOp'.sess])
               /\ current_property'[lastOp'.sess] =
                    properties'[lastOp'.sess][1].name
       /\ (lastOp'.op \in Mutations /\ lastOp'.sess \in Sessions)
            => current_property[lastOp'.sess]
                    \in KeySet(properties[lastOp'.sess])]_vars

\* C9 witness: the middle one of three properties was deleted and the
\* pointer names the first of the two that remain.
C9_Witness ==
    /\ lastOp.op = "delete_property"
    /\ Len(properties[OpSession]) = 2
    /\ current_property[OpSession] = properties[OpSession][1].name
    /\ properties[OpSession][1].name = DefaultProperty
    /\ properties[OpSession][2].name = "B"

\* C10: with two sessions, after every save that has finished the store the
\* save wrote (the row when the upsert went through, else the file) holds
\* the whole ledger of the session that saved, whatever the other session
\* holds or saved before, and the save was neither refused nor raised.
C10_LastWriteWins ==
    (lastOp.saveCalled /\ lastOp.local # "opened")
        => /\ ~lastOp.rejected /\ ~lastOp.raised
           /\ lastOp.remote = "ok" \/ lastOp.local = "written"
           /\ lastOp.remote = "ok"
                => /\ remote[OpUser].username = OpUser
                   /\ remote[OpUser].properties =
                        JsonbSort(properties[OpSession])
           /\ lastOp.local = "written"
                => /\ local[OpUser].username = OpUser
                   /\ local[OpUser].properties = properties[OpSession]

\* C8 as stated: no run of the script that loads or saves ends in an
\* exception that nothing catches.
C8_NoUnhandledFault == ~lastOp.raised

====
